---- MODULE Spec2Model ----
(***************************************************************************)
(* LINE Korean <-> Thai translator webhook.  The repository holds several  *)
(* full-file variants of the same handler; each variant is modelled as its *)
(* own group of actions over the shared request state:                      *)
(*   W*  src/api/webhook.js (two variants) and src/unnamed/part_000         *)
(*   P1* src/unnamed/part_001  (Responses API, three-model fallback)        *)
(*   P2* src/unnamed/part_002  lines 1-230 (429 retry)                      *)
(*   B*  src/unnamed/part_002  lines 232-336 ({"text": ...} by regex)       *)
(*   P3* src/unnamed/part_003  (plain text, model fallback)                 *)
(* Text is a sequence of UTF-16 code units (all characters used are BMP).  *)
(* The text functions of the sources are also applied on their own, to      *)
(* every text of a bounded set: input holds the arguments, output the       *)
(* result.                                                                  *)
(***************************************************************************)
EXTENDS Integers, Sequences, FiniteSets, TLC

VARIABLES variant, env, req, pc, idx, tries, ai, messages, oaiCalls, lineCalls, raised, res,
          input, output

vars == <<variant, env, req, pc, idx, tries, ai, messages, oaiCalls, lineCalls, raised, res,
          input, output>>

(***************************************************************************)
(* Bounds of the model.                                                    *)
(***************************************************************************)
MaxEvents == 2

\* longest text the text functions are applied to on their own
MaxText == 4

\* most pieces a model output is put together from
MaxPieces == 3

(***************************************************************************)
(* String literals of the sources, as code units.                          *)
(***************************************************************************)
\* "번역에 실패했어요. 다시 시도해 주세요."
FAIL_TEXT == <<48264, 50669, 50640, 32, 49892, 54056, 54664, 50612, 50836, 46, 32,
               45796, 49884, 32, 49884, 46020, 54644, 32, 51452, 49464, 50836, 46>>
\* "번역 형식 오류가 발생했어요."
FORMAT_TEXT == <<48264, 50669, 32, 54805, 49885, 32, 50724, 47448, 44032, 32, 48156, 49373, 54664, 50612, 50836, 46>>
\* "```"
FENCE == <<96, 96, 96>>
\* "깨우"
KAEU == <<44648, 50864>>
\* "แก้ว"
KAEW == <<3649, 3585, 3657, 3623>>
\* "ครับ"
KRAP == <<3588, 3619, 3633, 3610>>

(***************************************************************************)
(* JavaScript string primitives.                                           *)
(***************************************************************************)
\* /\s/ and String.prototype.trim: the ECMAScript WhiteSpace and LineTerminator sets
IsSpace(c) ==
    \/ c \in {9, 10, 11, 12, 13, 32, 160, 5760, 8232, 8233, 8239, 8287, 12288, 65279}
    \/ (c >= 8192 /\ c <= 8202)

\* /[a-zA-Z]/
IsAsciiLetter(c) == (c >= 65 /\ c <= 90) \/ (c >= 97 /\ c <= 122)

\* canonicalisation of the /i flag on ASCII letters
Lower(c) == IF c >= 65 /\ c <= 90 THEN c + 32 ELSE c

\* s.slice(from - 1) for a 1-based position
Drop(s, n) == IF n >= Len(s) THEN <<>> ELSE SubSeq(s, n + 1, Len(s))

\* s.slice(0, n)
Slice0(s, n) == IF n >= Len(s) THEN s ELSE SubSeq(s, 1, n)

RECURSIVE TrimStart(_)
TrimStart(s) == IF s # <<>> /\ IsSpace(Head(s)) THEN TrimStart(Tail(s)) ELSE s

RECURSIVE TrimEnd(_)
TrimEnd(s) ==
    IF s # <<>> /\ IsSpace(s[Len(s)]) THEN TrimEnd(SubSeq(s, 1, Len(s) - 1)) ELSE s

\* String.prototype.trim
Trim(s) == TrimEnd(TrimStart(s))

\* pat occurs in s at 1-based position p
MatchAt(s, p, pat) ==
    /\ p >= 1
    /\ p + Len(pat) - 1 <= Len(s)
    /\ \A k \in 1..Len(pat) : s[p + k - 1] = pat[k]

\* the same, ignoring ASCII case (pat is given in lower case)
MatchAtI(s, p, pat) ==
    /\ p >= 1
    /\ p + Len(pat) - 1 <= Len(s)
    /\ \A k \in 1..Len(pat) : Lower(s[p + k - 1]) = pat[k]

\* 1-based position of the first occurrence of pat at or after from, 0 if none
IndexOfFrom(s, pat, from) ==
    LET ps == {p \in from..(Len(s) - Len(pat) + 1) : MatchAt(s, p, pat)}
    IN  IF ps = {} THEN 0 ELSE CHOOSE p \in ps : \A q \in ps : p <= q

\* String.prototype.includes
Includes(s, pat) == IndexOfFrom(s, pat, 1) # 0

\* String.prototype.startsWith
StartsWith(s, pat) == MatchAt(s, 1, pat)

\* the longest prefix of s made of characters satisfying [a-zA-Z]
RECURSIVE SkipLetters(_)
SkipLetters(s) == IF s # <<>> /\ IsAsciiLetter(Head(s)) THEN SkipLetters(Tail(s)) ELSE s

(***************************************************************************)
(* The inbound webhook request and the external services.                  *)
(***************************************************************************)
\* "깨우 ㅋㅋ" (Korean, with the name), "안녕" (Korean), "กิน" (Thai)
UserTexts == {<<44648, 50864, 32, 12619, 12619>>, <<50504, 45397>>, <<3585, 3636, 3609>>}

\* "안녕" (Korean), "กิน" (Thai)
PlainUserTexts == {<<50504, 45397>>, <<3585, 3636, 3609>>}

\* an event of the delivery: a text message, a sticker message, or a follow event
EventShapes(texts) ==
    {[type |-> "message", mtype |-> "text", text |-> t] : t \in texts}
    \cup {[type |-> "message", mtype |-> "sticker", text |-> <<>>],
          [type |-> "follow", mtype |-> "none", text |-> <<>>]}

RECURSIVE SeqsUpTo(_, _)
SeqsUpTo(S, n) ==
    IF n = 0 THEN {<<>>}
    ELSE LET shorter == SeqsUpTo(S, n - 1)
         IN  shorter \cup {Append(q, x) : q \in {r \in shorter : Len(r) = n - 1}, x \in S}

\* req.method and req.body as the platform hands them to the handler: a non-POST
\* request, a POST without a body, a POST whose body is an unparsed string, and a
\* POST carrying a delivery of at most MaxEvents events
Requests(texts) ==
    {[method |-> "GET", body |-> "object", events |-> <<>>],
     [method |-> "POST", body |-> "none", events |-> <<>>],
     [method |-> "POST", body |-> "text", events |-> <<>>]}
    \cup {[method |-> "POST", body |-> "object", events |-> d] :
            d \in SeqsUpTo(EventShapes(texts), MaxEvents)}

Models == {"gpt-4o", "gpt-4o-mini", "gpt-5"}

\* the LINE reply endpoint: the fetch resolves (2xx or not) or rejects
ReplyOutcomes == {"ok", "http_error", "reject"}

\* fetch(...).then((r) => r.json()): the fetch rejects, the body is not JSON, or
\* the body is JSON and carries the content
FetchKinds == {"reject", "notjson", "json"}

\* a filter that lets every message event through, whatever its message type
isAnyMessage(ev) == ev.type = "message"

isTextMessage(ev) == ev.type = "message" /\ ev.mtype = "text"

\* the outcome of a completion attempt as its caller sees it
NoResult == [thrown |-> FALSE, ok |-> FALSE, status |-> 0, text |-> <<>>, back |-> <<>>]

(***************************************************************************)
(* src/unnamed/part_003: plain-text completion with a model fallback.      *)
(***************************************************************************)
\* block.replace(/```[a-zA-Z]*\n?/, "").replace(/```$/, "") on the inside of a block
StripLang(inner) ==
    LET rest == SkipLetters(inner)
    IN  IF rest # <<>> /\ Head(rest) = 10 THEN Tail(rest) ELSE rest

\* s.replace(/```[\s\S]*?```/g, block => ...)
RECURSIVE StripFenceBlocks(_)
StripFenceBlocks(s) ==
    LET p == IndexOfFrom(s, FENCE, 1)
        q == IF p = 0 THEN 0 ELSE IndexOfFrom(s, FENCE, p + 3)
    IN  IF q = 0 THEN s
        ELSE SubSeq(s, 1, p - 1) \o StripLang(SubSeq(s, p + 3, q - 1))
             \o StripFenceBlocks(Drop(s, q + 2))

\* s.replace(/^(?:\s*Output\s*:|\s*Result\s*:|\s*Translation\s*:)\s*/i, "")
StripHeader(s) ==
    LET t == TrimStart(s)
        words == {<<111, 117, 116, 112, 117, 116>>,
                  <<114, 101, 115, 117, 108, 116>>,
                  <<116, 114, 97, 110, 115, 108, 97, 116, 105, 111, 110>>}
        hit == {w \in words : /\ MatchAtI(t, 1, w)
                              /\ LET u == TrimStart(Drop(t, Len(w)))
                                 IN  u # <<>> /\ Head(u) = 58}
    IN  IF hit = {} THEN s
        ELSE LET w == CHOOSE w \in hit : TRUE
             IN  TrimStart(Tail(TrimStart(Drop(t, Len(w)))))

cleanText(s) == IF s = <<>> THEN <<>> ELSE Trim(StripHeader(StripFenceBlocks(s)))

\* what the chat-completions endpoint can answer: the fetch rejects, or resolves to
\* a status with a body that is JSON (carrying choices[0].message.content) or not
\* contents: "", " ", "กิน", "```\nOutput: ครับ```"
ContentsP3 ==
    {<<>>, <<32>>, <<3585, 3636, 3609>>,
     <<96, 96, 96, 10, 79, 117, 116, 112, 117, 116, 58, 32, 3588, 3619, 3633, 3610, 96, 96, 96>>}

ChatResponsesP3 ==
    {[kind |-> "reject", ok |-> FALSE, status |-> 0, body |-> "none", content |-> <<>>],
     [kind |-> "http", ok |-> FALSE, status |-> 429, body |-> "json", content |-> <<>>],
     [kind |-> "http", ok |-> FALSE, status |-> 502, body |-> "notjson", content |-> <<>>]}
    \cup {[kind |-> "http", ok |-> TRUE, status |-> 200, body |-> "json", content |-> c] :
            c \in ContentsP3}

\* a client that hands an empty completion on as a success
callOpenAI_p3_KeepEmpty(resp) ==
    IF resp.kind = "reject" THEN [NoResult EXCEPT !.thrown = TRUE]
    ELSE IF resp.body = "notjson" THEN NoResult
    ELSE IF ~resp.ok THEN NoResult
    ELSE [NoResult EXCEPT !.ok = TRUE, !.text = cleanText(resp.content)]

\* callOpenAI(model, userText) of part_003, given the endpoint's answer
callOpenAI_p3(resp) ==
    IF resp.kind = "reject" THEN [NoResult EXCEPT !.thrown = TRUE]
    ELSE IF resp.body = "notjson" THEN NoResult
    ELSE IF ~resp.ok THEN NoResult
    ELSE LET text == cleanText(resp.content)
         IN  IF text = <<>> THEN NoResult
             ELSE IF Includes(text, FENCE) /\ cleanText(text) # <<>>
                  THEN [NoResult EXCEPT !.ok = TRUE, !.text = cleanText(text)]
                  ELSE [NoResult EXCEPT !.ok = TRUE, !.text = text]

\* one request to the completion endpoint made while handling event idx
\* and what its caller got back (status: the HTTP status where the client reports it)
OaiCall(model, payload, r) ==
    [ev |-> idx, model |-> model, payload |-> payload, status |-> r.status,
     ok |-> r.ok, thrown |-> r.thrown]

\* the call was answered with a 2xx whose completion content is empty or white space
\* only: content as text, or as the text around a serialized object
BlankText(httpOk, content) == httpOk /\ Trim(content) = <<>>

BlankRaw(httpOk, raw) == httpOk /\ ~raw.has /\ Trim(raw.pre \o raw.post) = <<>>

\* if (req.method !== "POST") ...; const events = req.body.events || []
P3_Enter ==
    /\ variant = "part_003"
    /\ pc = "start"
    /\ IF req.method # "POST" THEN res' = 405 /\ pc' = "done" /\ raised' = raised
       ELSE IF req.body = "none" THEN res' = 500 /\ pc' = "done" /\ raised' = raised \cup {0}
       ELSE res' = res /\ pc' = "loop" /\ raised' = raised
    /\ UNCHANGED <<input, output, variant, messages, env, req, idx, tries, ai, oaiCalls, lineCalls>>

\* for (const event of events) { if (...) continue; ... }
P3_NextEvent ==
    /\ variant = "part_003"
    /\ pc = "loop"
    /\ idx < Len(req.events)
    /\ idx' = idx + 1
    /\ pc' = IF isTextMessage(req.events[idx + 1]) THEN "primary" ELSE "loop"
    /\ ai' = NoResult
    /\ UNCHANGED <<input, output, variant, messages, env, req, tries, oaiCalls, lineCalls, raised, res>>

\* let ai = await callOpenAI(OPENAI_MODEL, userMsg)
P3_CallPrimary ==
    /\ variant = "part_003"
    /\ pc = "primary"
    /\ \E resp \in ChatResponsesP3 :
         LET r == callOpenAI_p3(resp)
         IN  /\ oaiCalls' = Append(oaiCalls, OaiCall(env.OPENAI_MODEL, Trim(req.events[idx].text), r)
                    @@ [blank |-> BlankText(resp.ok /\ resp.body = "json", resp.content)])
             /\ IF r.thrown
                THEN /\ res' = 500 /\ pc' = "done" /\ raised' = raised \cup {idx}
                     /\ ai' = ai
                ELSE /\ res' = res /\ raised' = raised /\ ai' = r
                     /\ pc' = IF ~r.ok /\ env.OPENAI_MODEL # "gpt-4o-mini"
                              THEN "fallback" ELSE "reply"
    /\ UNCHANGED <<input, output, variant, messages, env, req, idx, tries, lineCalls>>

\* const fallback = await callOpenAI("gpt-4o-mini", userMsg); if (fallback.ok) ai = fallback
P3_CallFallback ==
    /\ variant = "part_003"
    /\ pc = "fallback"
    /\ \E resp \in ChatResponsesP3 :
         LET r == callOpenAI_p3(resp)
         IN  /\ oaiCalls' = Append(oaiCalls, OaiCall("gpt-4o-mini", Trim(req.events[idx].text), r)
                    @@ [blank |-> BlankText(resp.ok /\ resp.body = "json", resp.content)])
             /\ IF r.thrown
                THEN /\ res' = 500 /\ pc' = "done" /\ raised' = raised \cup {idx}
                     /\ ai' = ai
                ELSE /\ res' = res /\ raised' = raised /\ pc' = "reply"
                     /\ ai' = IF r.ok THEN r ELSE ai
    /\ UNCHANGED <<input, output, variant, messages, env, req, idx, tries, lineCalls>>

\* await fetch(chat completions) with no signal and no timer: when the endpoint
\* never answers, the promise never settles and the handler stays at the await
P3_Hang ==
    /\ variant = "part_003"
    /\ pc \in {"primary", "fallback"}
    /\ pc' = "waiting"
    /\ UNCHANGED <<input, output, variant, messages, env, req, idx, tries, ai, oaiCalls, lineCalls, raised, res>>

\* replyText = ai.ok && ai.text ? ai.text : "..."; await fetch(LINE reply)
P3_Reply ==
    /\ variant = "part_003"
    /\ pc = "reply"
    /\ \E o \in ReplyOutcomes :
         /\ lineCalls' = Append(lineCalls,
                [ev |-> idx, messages |-> <<IF ai.ok /\ ai.text # <<>> THEN ai.text ELSE FAIL_TEXT>>,
                 outcome |-> o])
         /\ IF o = "reject"
            THEN res' = 500 /\ pc' = "done" /\ raised' = raised \cup {idx}
            ELSE res' = res /\ pc' = "loop" /\ raised' = raised
    /\ UNCHANGED <<input, output, variant, messages, env, req, idx, tries, ai, oaiCalls>>

\* res.status(200).send("OK")
P3_Finish ==
    /\ variant = "part_003"
    /\ pc = "loop"
    /\ idx = Len(req.events)
    /\ res' = 200
    /\ pc' = "done"
    /\ UNCHANGED <<input, output, variant, messages, env, req, idx, tries, ai, oaiCalls, lineCalls, raised>>

(***************************************************************************)
(* Completion text that may carry a JSON object.  The text is                *)
(* pre \o (the serialised object, "{" ... "}", when has) \o post; obj holds  *)
(* the object's string fields, an absent field read as "".                   *)
(***************************************************************************)
\* the four characters JSON.parse skips around a value
IsJsonWs(s) == \A k \in 1..Len(s) : s[k] \in {9, 10, 13, 32}

\* JSON.parse(text) yields an object: nothing but JSON white space surrounds it
StrictObject(raw) == raw.has /\ IsJsonWs(raw.pre) /\ IsJsonWs(raw.post)

\* text.slice(text.indexOf("{"), text.lastIndexOf("}") + 1) is exactly the object:
\* no "{" before it and no "}" after it
BraceSpanObject(raw) ==
    /\ raw.has
    /\ \A k \in 1..Len(raw.pre) : raw.pre[k] # 123
    /\ \A k \in 1..Len(raw.post) : raw.post[k] # 125

(***************************************************************************)
(* src/unnamed/part_001: Responses API with a three-model fallback chain.  *)
(***************************************************************************)
\* parseLooseJSON(text): TRUE when it returns the object, FALSE when it throws or
\* returns a value without fields
parseLooseJSON(raw) == StrictObject(raw) \/ BraceSpanObject(raw)

\* output[0].content[0].text of the Responses API:
\* "", {"primary":"กิน","backtranslation":"안녕"}, "ok {"primary":"กิน"}",
\* {"primary":""}, "{ {"primary":"กิน"}"
RawsP1 ==
    {[pre |-> <<>>, has |-> FALSE, obj |-> [primary |-> <<>>, backtranslation |-> <<>>],
      post |-> <<>>],
     [pre |-> <<>>, has |-> TRUE,
      obj |-> [primary |-> <<3585, 3636, 3609>>, backtranslation |-> <<50504, 45397>>],
      post |-> <<10>>],
     [pre |-> <<111, 107, 32>>, has |-> TRUE,
      obj |-> [primary |-> <<3585, 3636, 3609>>, backtranslation |-> <<32>>],
      post |-> <<>>],
     [pre |-> <<>>, has |-> TRUE, obj |-> [primary |-> <<>>, backtranslation |-> <<>>],
      post |-> <<>>],
     [pre |-> <<123, 32>>, has |-> TRUE,
      obj |-> [primary |-> <<3585, 3636, 3609>>, backtranslation |-> <<>>],
      post |-> <<>>]}

NoRawP1 == [pre |-> <<>>, has |-> FALSE, obj |-> [primary |-> <<>>, backtranslation |-> <<>>],
            post |-> <<>>]

ResponsesP1 ==
    {[kind |-> "reject", ok |-> FALSE, status |-> 0, body |-> "none", out |-> NoRawP1],
     [kind |-> "http", ok |-> FALSE, status |-> 429, body |-> "json", out |-> NoRawP1],
     [kind |-> "http", ok |-> TRUE, status |-> 200, body |-> "notjson", out |-> NoRawP1]}
    \cup {[kind |-> "http", ok |-> TRUE, status |-> 200, body |-> "json", out |-> r] :
            r \in RawsP1}

\* callOpenAI({model, content}) of part_001: every failure is an exception
callOpenAI_p1(resp) ==
    IF resp.kind = "reject" THEN [NoResult EXCEPT !.thrown = TRUE]
    ELSE IF ~resp.ok THEN [NoResult EXCEPT !.thrown = TRUE]
    ELSE IF resp.body = "notjson" THEN [NoResult EXCEPT !.thrown = TRUE]
    ELSE IF ~parseLooseJSON(resp.out) THEN [NoResult EXCEPT !.thrown = TRUE]
    ELSE IF resp.out.obj.primary = <<>> THEN [NoResult EXCEPT !.thrown = TRUE]
    ELSE [NoResult EXCEPT !.ok = TRUE, !.text = resp.out.obj.primary,
                          !.back = resp.out.obj.backtranslation]

\* [a, b, c].filter((v, i, arr) => arr.indexOf(v) === i)
RECURSIVE Dedup(_)
Dedup(q) ==
    IF q = <<>> THEN <<>>
    ELSE LET front == Dedup(SubSeq(q, 1, Len(q) - 1))
             last == q[Len(q)]
         IN  IF \E k \in 1..Len(front) : front[k] = last THEN front ELSE Append(front, last)

\* the chain without the filter that drops a repeated model
ModelOrderUnfiltered(primary) == <<primary, "gpt-4o", "gpt-4o-mini">>

\* the order of translateWithFallback
ModelOrder(primary) == Dedup(<<primary, "gpt-4o", "gpt-4o-mini">>)

\* replyText of the handler, from the result of translateWithFallback
ReplyTextP1(r) ==
    IF r.thrown THEN FAIL_TEXT
    ELSE IF r.back # <<>> /\ Trim(r.back) # <<>>
         THEN r.text \o <<10, 40>> \o r.back \o <<41>>
         ELSE r.text

\* if (req.method !== "POST") return 405; const events = req.body.events || []
P1_Enter ==
    /\ variant = "part_001"
    /\ pc = "start"
    /\ IF req.method # "POST" THEN res' = 405 /\ pc' = "done" /\ raised' = raised
       ELSE IF req.body = "none" THEN res' = res /\ pc' = "crashed" /\ raised' = raised \cup {0}
       ELSE res' = res /\ pc' = "loop" /\ raised' = raised
    /\ UNCHANGED <<input, output, variant, messages, env, req, idx, tries, ai, oaiCalls, lineCalls>>

\* for (const event of events) { if (...) continue; ... }
P1_NextEvent ==
    /\ variant = "part_001"
    /\ pc = "loop"
    /\ idx < Len(req.events)
    /\ idx' = idx + 1
    /\ pc' = IF isTextMessage(req.events[idx + 1]) THEN "translate" ELSE "loop"
    /\ ai' = NoResult
    /\ tries' = 0
    /\ UNCHANGED <<input, output, variant, messages, env, req, oaiCalls, lineCalls, raised, res>>

\* one turn of the loop of translateWithFallback: callOpenAI with the next model
P1_CallModel ==
    /\ variant = "part_001"
    /\ pc = "translate"
    /\ LET order == ModelOrder(env.OPENAI_MODEL)
       IN  \E resp \in ResponsesP1 :
             LET r == callOpenAI_p1(resp)
             IN  /\ oaiCalls' = Append(oaiCalls,
                        OaiCall(order[tries + 1], Trim(req.events[idx].text), r)
                        @@ [blank |-> BlankRaw(resp.ok /\ resp.body = "json", resp.out)])
                 /\ tries' = tries + 1
                 /\ IF r.thrown /\ tries + 1 < Len(order)
                    THEN pc' = "translate" /\ ai' = ai
                    ELSE pc' = "reply" /\ ai' = r
    /\ UNCHANGED <<input, output, variant, messages, env, req, idx, lineCalls, raised, res>>

\* await fetch(responses) with no signal and no timer: the endpoint never answers
P1_Hang ==
    /\ variant = "part_001"
    /\ pc = "translate"
    /\ pc' = "waiting"
    /\ UNCHANGED <<input, output, variant, messages, env, req, idx, tries, ai, oaiCalls, lineCalls, raised, res>>

\* await fetch(LINE reply) outside any try
P1_Reply ==
    /\ variant = "part_001"
    /\ pc = "reply"
    /\ \E o \in ReplyOutcomes :
         /\ lineCalls' = Append(lineCalls,
                [ev |-> idx, messages |-> <<ReplyTextP1(ai)>>, outcome |-> o])
         /\ IF o = "reject"
            THEN pc' = "crashed" /\ raised' = raised \cup {idx}
            ELSE pc' = "loop" /\ raised' = raised
    /\ UNCHANGED <<input, output, variant, messages, env, req, idx, tries, ai, oaiCalls, res>>

\* res.status(200).end()
P1_Finish ==
    /\ variant = "part_001"
    /\ pc = "loop"
    /\ idx = Len(req.events)
    /\ res' = 200
    /\ pc' = "done"
    /\ UNCHANGED <<input, output, variant, messages, env, req, idx, tries, ai, oaiCalls, lineCalls, raised>>

(***************************************************************************)
(* src/unnamed/part_002, lines 1-230: JSON mode with a 429 retry.          *)
(***************************************************************************)
LINE_MAX == 2000

\* retries: 2 in the handler's call of askWithRetry
RETRIES == 2

\* s.replace(/^```json\s*/i, "")
StripLeadFence(s) ==
    IF MatchAtI(s, 1, <<96, 96, 96, 106, 115, 111, 110>>) THEN TrimStart(Drop(s, 7)) ELSE s

\* s.replace(/```$/i, "")
StripTrailFence(s) ==
    IF Len(s) >= 3 /\ MatchAt(s, Len(s) - 2, FENCE) THEN SubSeq(s, 1, Len(s) - 3) ELSE s

\* trimFence(s) on a text that carries an object: only the text around it changes
trimFence(raw) ==
    IF raw.has
    THEN [raw EXCEPT !.pre = TrimStart(StripLeadFence(raw.pre)),
                     !.post = TrimEnd(StripTrailFence(raw.post))]
    ELSE [raw EXCEPT !.pre = Trim(StripTrailFence(StripLeadFence(raw.pre \o raw.post))),
                     !.post = <<>>]

\* safeParseJSON(str) of part_002: TRUE when an object comes back, FALSE for null
\* or a value without fields
safeParseJSON_p2(raw) == StrictObject(trimFence(raw))

\* truncateLine(s, limit = LINE_MAX)
truncateLine(t) == IF Len(t) <= LINE_MAX THEN t ELSE Append(SubSeq(t, 1, LINE_MAX - 1), 8230)

\* the HTTP body res.text() of the chat-completions endpoint: on 200 the envelope
\* {"id":..,"choices":[{"message":{"content":..}}]}, whose top level has neither
\* "translated" nor "literal"; on an error status {"error":{..}}
EnvelopeP2 == [pre |-> <<>>, has |-> TRUE, obj |-> [translated |-> <<>>, literal |-> <<>>],
               post |-> <<10>>]

\* choices[0].message.content inside the envelope, as the model wrote it:
\* {"translated":"กิน","literal":"안녕"}, {"translated":"กิน","literal":""}, ""
ContentsP2 ==
    {[wellFormed |-> TRUE, translated |-> <<3585, 3636, 3609>>, literal |-> <<50504, 45397>>],
     [wellFormed |-> TRUE, translated |-> <<3585, 3636, 3609>>, literal |-> <<>>],
     [wellFormed |-> FALSE, translated |-> <<>>, literal |-> <<>>]}

NoContentP2 == [wellFormed |-> FALSE, translated |-> <<>>, literal |-> <<>>]

\* the fetch rejects (network error, or the 15 s abort), or resolves with a status;
\* raw is the whole body, content is what the envelope of a 200 carries
ResponsesP2 ==
    {[kind |-> "reject", ok |-> FALSE, status |-> 0, raw |-> EnvelopeP2, content |-> NoContentP2],
     [kind |-> "http", ok |-> FALSE, status |-> 429, raw |-> EnvelopeP2, content |-> NoContentP2],
     [kind |-> "http", ok |-> FALSE, status |-> 500, raw |-> EnvelopeP2, content |-> NoContentP2]}
    \cup {[kind |-> "http", ok |-> TRUE, status |-> 200, raw |-> EnvelopeP2, content |-> c] :
             c \in ContentsP2}

\* askOpenAI(messages): {ok, status, raw}; the catch turns an exception into status 0
askOpenAI(resp) ==
    IF resp.kind = "reject" THEN NoResult
    ELSE [NoResult EXCEPT !.ok = resp.ok, !.status = resp.status]

\* a retry loop that repeats after any failed attempt, not only after a 429
ShouldRetryAnyFailure(last, i) == ~last.ok /\ i < RETRIES

\* if (last?.status === 429 && i < retries) { sleep; continue }
ShouldRetry(last, i) == last.status = 429 /\ i < RETRIES

\* translated / literal of the handler: parsed?.x?.toString()?.trim() || ""
FieldP2(raw, x) == IF safeParseJSON_p2(raw) THEN Trim(x) ELSE <<>>

\* a handler that answers a failed completion with "OpenAI error" instead of the
\* failure message
OutTextsP2_ErrorText(r) ==
    IF r.ok /\ r.text # <<>>
    THEN IF env.BACKLITERAL /\ r.back # <<>>
         THEN <<r.text, <<40, 51649, 50669, 41, 32>> \o r.back>>
         ELSE <<r.text>>
    ELSE <<<<79, 112, 101, 110, 65, 73, 32, 101, 114, 114, 111, 114>>>>

\* outTexts of the handler
OutTextsP2(r) ==
    IF r.ok
    THEN IF r.text # <<>>
         THEN IF env.BACKLITERAL /\ r.back # <<>>
              THEN <<r.text, <<40, 51649, 50669, 41, 32>> \o r.back>>
              ELSE <<r.text>>
         ELSE <<FAIL_TEXT>>
    ELSE <<FAIL_TEXT>>

\* messages of lineReply(replyToken, texts)
lineReplyMessages(texts) ==
    IF Len(texts) > 0 THEN [k \in 1..Len(texts) |-> truncateLine(texts[k])] ELSE <<FAIL_TEXT>>

\* the method and key checks, the body parse and the empty-delivery return
P2_Enter ==
    /\ variant = "part_002"
    /\ pc = "start"
    /\ IF req.method # "POST" THEN res' = 405 /\ pc' = "done" /\ raised' = raised
       ELSE IF ~env.OPENAI_API_KEY THEN res' = 500 /\ pc' = "done" /\ raised' = raised
       ELSE IF req.body = "text" THEN res' = 200 /\ pc' = "done" /\ raised' = raised \cup {0}
       ELSE IF req.body = "none" \/ Len(req.events) = 0
            THEN res' = 200 /\ pc' = "done" /\ raised' = raised
       ELSE res' = res /\ pc' = "loop" /\ raised' = raised
    /\ UNCHANGED <<input, output, variant, messages, env, req, idx, tries, ai, oaiCalls, lineCalls>>

\* for (const event of events) { if (!replyToken || !text || event.type !== "message") continue
P2_NextEvent ==
    /\ variant = "part_002"
    /\ pc = "loop"
    /\ idx < Len(req.events)
    /\ idx' = idx + 1
    /\ pc' = IF req.events[idx + 1].type = "message" /\ req.events[idx + 1].text # <<>>
             THEN "ask" ELSE "loop"
    /\ ai' = NoResult
    /\ tries' = 0
    /\ UNCHANGED <<input, output, variant, messages, env, req, oaiCalls, lineCalls, raised, res>>

\* one turn of the loop of askWithRetry: last = await askOpenAI(messages)
P2_Ask ==
    /\ variant = "part_002"
    /\ pc = "ask"
    /\ \E resp \in ResponsesP2 :
         LET last == askOpenAI(resp)
         IN  /\ oaiCalls' = Append(oaiCalls,
                    OaiCall(env.OPENAI_MODEL, req.events[idx].text, last)
                        @@ [content |-> resp.content,
                            blank |-> resp.ok /\ ~resp.content.wellFormed])
             /\ IF ShouldRetry(last, tries)
                THEN pc' = "ask" /\ tries' = tries + 1 /\ ai' = ai
                ELSE /\ pc' = "reply" /\ tries' = tries
                     /\ ai' = [last EXCEPT !.text = FieldP2(resp.raw, resp.raw.obj.translated),
                                           !.back = FieldP2(resp.raw, resp.raw.obj.literal)]
    /\ UNCHANGED <<input, output, variant, messages, env, req, idx, lineCalls, raised, res>>

\* await lineReply(replyToken, outTexts); a rejected fetch lands in the outer catch
P2_Reply ==
    /\ variant = "part_002"
    /\ pc = "reply"
    /\ \E o \in ReplyOutcomes :
         /\ lineCalls' = Append(lineCalls,
                [ev |-> idx, messages |-> lineReplyMessages(OutTextsP2(ai)), outcome |-> o])
         /\ IF o = "reject"
            THEN res' = 200 /\ pc' = "done" /\ raised' = raised \cup {idx}
            ELSE res' = res /\ pc' = "loop" /\ raised' = raised
    /\ UNCHANGED <<input, output, variant, messages, env, req, idx, tries, ai, oaiCalls>>

\* return res.status(200).json({ ok: true })
P2_Finish ==
    /\ variant = "part_002"
    /\ pc = "loop"
    /\ idx = Len(req.events)
    /\ res' = 200
    /\ pc' = "done"
    /\ UNCHANGED <<input, output, variant, messages, env, req, idx, tries, ai, oaiCalls, lineCalls, raised>>

(***************************************************************************)
(* src/unnamed/part_002, lines 232-336: a second handler, which takes the   *)
(* {"text": "..."} object out of the completion with a regular expression.  *)
(***************************************************************************)
\* choices[0].message.content of the completion: "" (also what an error body
\* gives), {"text":"กิน"}, {"text":""}, and the plain text "กิน"
ContentsB ==
    {[pre |-> <<>>, has |-> FALSE, obj |-> [text |-> <<>>], post |-> <<>>],
     [pre |-> <<>>, has |-> TRUE, obj |-> [text |-> <<3585, 3636, 3609>>], post |-> <<>>],
     [pre |-> <<>>, has |-> TRUE, obj |-> [text |-> <<>>], post |-> <<>>],
     [pre |-> <<3585, 3636, 3609>>, has |-> FALSE, obj |-> [text |-> <<>>], post |-> <<>>]}

\* if (req.method !== "POST") return 405; const events = req.body.events; for (... of events)
\* inside the try: a body without an events array throws into the catch
B_Enter ==
    /\ variant = "part_002b"
    /\ pc = "start"
    /\ IF req.method # "POST" THEN res' = 405 /\ pc' = "done" /\ raised' = raised
       ELSE IF req.body # "object" THEN res' = 500 /\ pc' = "done" /\ raised' = raised \cup {0}
       ELSE res' = res /\ pc' = "loop" /\ raised' = raised
    /\ UNCHANGED <<input, output, variant, messages, env, req, idx, tries, ai, oaiCalls, lineCalls>>

\* for (const event of events) { if (event.type === "message" && ...) { ... } }
B_NextEvent ==
    /\ variant = "part_002b"
    /\ pc = "loop"
    /\ idx < Len(req.events)
    /\ idx' = idx + 1
    /\ pc' = IF isTextMessage(req.events[idx + 1]) THEN "complete" ELSE "loop"
    /\ messages' = <<>>
    /\ UNCHANGED <<input, output, variant, env, req, tries, ai, oaiCalls, lineCalls, raised, res>>

\* const response = await fetch(...); const data = await response.json(); the regex
\* match and JSON.parse(match[0]).text, or the format-error text
B_Complete ==
    /\ variant = "part_002b"
    /\ pc = "complete"
    /\ \E k \in FetchKinds, raw \in ContentsB :
         /\ k # "json" => raw = CHOOSE r \in ContentsB : ~r.has /\ r.pre = <<>>
         /\ oaiCalls' = Append(oaiCalls,
                OaiCall(env.OPENAI_MODEL, req.events[idx].text,
                        [NoResult EXCEPT !.thrown = (k # "json"),
                                         !.ok = (k = "json" /\ raw.has)])
                @@ [blank |-> BlankRaw(k = "json", raw)])
         /\ IF k # "json"
            THEN res' = 500 /\ pc' = "done" /\ raised' = raised \cup {idx} /\ messages' = messages
            ELSE /\ res' = res /\ pc' = "reply" /\ raised' = raised
                 /\ messages' = <<IF raw.has THEN raw.obj.text ELSE FORMAT_TEXT>>
    /\ UNCHANGED <<input, output, variant, env, req, idx, tries, ai, lineCalls>>

\* await fetch(chat completions) with no signal and no timer: the endpoint never answers
B_Hang ==
    /\ variant = "part_002b"
    /\ pc = "complete"
    /\ pc' = "waiting"
    /\ UNCHANGED <<input, output, variant, messages, env, req, idx, tries, ai, oaiCalls, lineCalls, raised, res>>

\* await fetch(LINE reply) with messages: [{type: "text", text: translatedText}]
B_Reply ==
    /\ variant = "part_002b"
    /\ pc = "reply"
    /\ \E o \in ReplyOutcomes :
         /\ lineCalls' = Append(lineCalls, [ev |-> idx, messages |-> messages, outcome |-> o])
         /\ IF o = "reject"
            THEN res' = 500 /\ pc' = "done" /\ raised' = raised \cup {idx}
            ELSE res' = res /\ pc' = "loop" /\ raised' = raised
    /\ UNCHANGED <<input, output, variant, messages, env, req, idx, tries, ai, oaiCalls>>

\* res.status(200).send("OK")
B_Finish ==
    /\ variant = "part_002b"
    /\ pc = "loop"
    /\ idx = Len(req.events)
    /\ res' = 200
    /\ pc' = "done"
    /\ UNCHANGED <<input, output, variant, messages, env, req, idx, tries, ai, oaiCalls, lineCalls, raised>>

(***************************************************************************)
(* src/api/webhook.js (lines 1-194 and 196-379) and src/unnamed/part_000:  *)
(* a JSON-forcing prompt, then a plain-text fallback prompt.                *)
(***************************************************************************)
MAX_LEN == 1900

\* /[가-힣]/
IsHangul(c) == c >= 44032 /\ c <= 55203

\* /[฀-๿]/
IsThai(c) == c >= 3584 /\ c <= 3711

hasHangul(s) == \E k \in 1..Len(s) : IsHangul(s[k])

hasThai(s) == \E k \in 1..Len(s) : IsThai(s[k])

\* s.replace(/เกอู|แกอู|Kaeu|Kaeo|Gaeu|Gaeo/gi, "แก้ว")
RECURSIVE ReplaceNames(_)
ReplaceNames(s) ==
    LET names == {<<3648, 3585, 3629, 3641>>, <<3649, 3585, 3629, 3641>>,
                  <<107, 97, 101, 117>>, <<107, 97, 101, 111>>,
                  <<103, 97, 101, 117>>, <<103, 97, 101, 111>>}
    IN  IF s = <<>> THEN <<>>
        ELSE IF \E n \in names : MatchAtI(s, 1, n) THEN KAEW \o ReplaceNames(Drop(s, 4))
        ELSE <<Head(s)>> \o ReplaceNames(Tail(s))

\* s.replace(/(^|\s)(คุณ|เธอ)(\s|$)/, "$1แก้ว$3"): the first match only
ReplacePronoun(s) ==
    LET words == {<<3588, 3640, 3603>>, <<3648, 3608, 3629>>}
        ws == {w \in 1..Len(s) :
                 /\ w = 1 \/ IsSpace(s[w - 1])
                 /\ \E x \in words : MatchAt(s, w, x)
                 /\ w + 3 > Len(s) \/ IsSpace(s[w + 3])}
    IN  IF ws = {} THEN s
        ELSE LET w == CHOOSE w \in ws : \A v \in ws : w <= v
             IN  SubSeq(s, 1, w - 1) \o KAEW \o Drop(s, w + 2)

\* s.replace(/[가-힣]/g, "")
RemoveHangul(s) == SelectSeq(s, LAMBDA c : ~IsHangul(c))

\* the rest of s after its leading run of c
RECURSIVE SkipRun(_, _)
SkipRun(s, c) == IF s # <<>> /\ Head(s) = c THEN SkipRun(Tail(s), c) ELSE s

\* a replacement without the g flag: only the first marker is replaced
RECURSIVE ReplaceLaughterFirstOnly(_)
ReplaceLaughterFirstOnly(s) ==
    IF s = <<>> THEN <<>>
    ELSE IF Len(s) >= 2 /\ s[1] = s[2] /\ s[1] \in {12619, 12622, 54616}
         THEN <<53, 53, 53>> \o SkipRun(s, s[1])
         ELSE <<Head(s)>> \o ReplaceLaughterFirstOnly(Tail(s))

\* s.replace(/ㅋㅋ+|ㅎㅎ+|하하+/g, "555")
RECURSIVE ReplaceLaughter(_)
ReplaceLaughter(s) ==
    IF s = <<>> THEN <<>>
    ELSE IF Len(s) >= 2 /\ s[1] = s[2] /\ s[1] \in {12619, 12622, 54616}
         THEN <<53, 53, 53>> \o ReplaceLaughter(SkipRun(s, s[1]))
         ELSE <<Head(s)>> \o ReplaceLaughter(Tail(s))

\* /ครับ(\s|[.!?…]|$)/.test(s)
HasKrapBeforeBreak(s) ==
    \E p \in 1..Len(s) :
        /\ MatchAt(s, p, KRAP)
        /\ \/ p + 4 > Len(s)
           \/ IsSpace(s[p + 4])
           \/ s[p + 4] \in {46, 33, 63, 8230}

\* /ครับ[\s.!?…]*$/.test(s)
EndsWithKrap(s) ==
    \E p \in 1..Len(s) :
        /\ MatchAt(s, p, KRAP)
        /\ \A k \in (p + 4)..Len(s) : IsSpace(s[k]) \/ s[k] \in {46, 33, 63, 8230}

\* "ค่ะ"
KA == <<3588, 3656, 3632>>

\* the name rule of webhook.js lines 163-167
NameRule_v1(s, originalKR) ==
    IF Includes(originalKR, KAEU) /\ ~Includes(s, KAEW)
    THEN LET t == ReplaceNames(s)
         IN  IF ~Includes(t, KAEW) THEN ReplacePronoun(t) ELSE t
    ELSE s

\* the name rule of webhook.js lines 351-354 and part_000 lines 164-167
NameRule(s, originalKR) ==
    IF Includes(originalKR, KAEU) /\ ~Includes(s, KAEW)
    THEN LET t == ReplaceNames(s)
         IN  IF ~Includes(t, KAEW) THEN KAEW \o <<32>> \o t ELSE t
    ELSE s

\* enforceThaiRules of webhook.js lines 159-182
enforceThaiRules_v1(thaiOut, originalKR) ==
    LET s == ReplaceLaughter(RemoveHangul(NameRule_v1(thaiOut, originalKR)))
    IN  IF ~EndsWithKrap(s) /\ ~Includes(s, KA) /\ Len(Trim(s)) > 0
        THEN Trim(TrimEnd(s) \o <<32>> \o KRAP)
        ELSE Trim(s)

\* enforceThaiRules of webhook.js lines 347-368
enforceThaiRules_v2(thaiOut, originalKR) ==
    LET s == ReplaceLaughter(RemoveHangul(NameRule(thaiOut, originalKR)))
    IN  IF Trim(s) # <<>> /\ ~HasKrapBeforeBreak(s) /\ ~Includes(s, KA)
        THEN Trim(TrimEnd(s) \o <<32>> \o KRAP)
        ELSE Trim(s)

\* enforceThaiRules of part_000 lines 160-177: no polite particle is appended
enforceThaiRules_p0(thaiOut, originalKR) ==
    Trim(ReplaceLaughter(RemoveHangul(NameRule(thaiOut, originalKR))))

enforceThaiRules(thaiOut, originalKR) ==
    IF variant = "webhook_v1" THEN enforceThaiRules_v1(thaiOut, originalKR)
    ELSE IF variant = "webhook_v2" THEN enforceThaiRules_v2(thaiOut, originalKR)
    ELSE enforceThaiRules_p0(thaiOut, originalKR)

\* "(직역) " and "(직역)"
JIKYEOK == <<40, 51649, 50669, 41, 32>>

JIKYEOK0 == <<40, 51649, 50669, 41>>

\* out.split("\n")
RECURSIVE SplitLines(_)
SplitLines(s) ==
    LET nl == IndexOfFrom(s, <<10>>, 1)
    IN  IF nl = 0 THEN <<s>> ELSE <<SubSeq(s, 1, nl - 1)>> \o SplitLines(Drop(s, nl))

\* out.split("\n").map((s) => s.trim()).filter(Boolean)
NonEmptyLines(out) ==
    LET ls == SplitLines(out)
    IN  SelectSeq([k \in 1..Len(ls) |-> Trim(ls[k])], LAMBDA l : l # <<>>)

\* safeParseJSON(raw) of the three files on raw = content.trim(): TRUE when an
\* object comes back
safeParseJSON(raw) ==
    StrictObject([raw EXCEPT !.pre = TrimStart(raw.pre), !.post = TrimEnd(raw.post)])

\* the messages the handler builds from the first completion; <<>> when it goes to
\* the fallback prompt
MessagesFromJSON(raw, userText) ==
    LET data == raw.obj IN
    IF safeParseJSON(raw) /\ data.mode = "KR->TH" /\ data.hasTh
    THEN LET th == Slice0(enforceThaiRules(data.th, userText), MAX_LEN)
             back == IF variant = "webhook_v1" THEN data.ko_backliteral
                     ELSE Trim(data.ko_backliteral)
         IN  IF back # <<>> THEN <<th, JIKYEOK \o Slice0(back, MAX_LEN)>> ELSE <<th>>
    ELSE IF safeParseJSON(raw) /\ data.mode = "TH->KR" /\ data.hasKo
    THEN <<Slice0(data.ko, MAX_LEN)>>
    ELSE <<>>

NeedsFallback(raw) ==
    LET data == raw.obj IN
    ~ \/ safeParseJSON(raw) /\ data.mode = "KR->TH" /\ data.hasTh
      \/ safeParseJSON(raw) /\ data.mode = "TH->KR" /\ data.hasKo

\* the return value of fallbackTranslate(text, key), given the content of its completion
fallbackTranslate(content, text) ==
    LET out == Trim(content)
        parts == NonEmptyLines(out)
        line1 == IF Len(parts) >= 1 THEN parts[1] ELSE <<>>
        line2 == IF Len(parts) >= 2 THEN parts[2] ELSE <<>>
        marked == IF StartsWith(line2, JIKYEOK0) THEN line2 ELSE JIKYEOK \o line2
    IN  IF out = <<>> THEN <<>>
        ELSE IF ~hasHangul(text) THEN <<Slice0(out, MAX_LEN)>>
        ELSE IF variant = "webhook_v1"
             THEN (IF Slice0(line1, MAX_LEN) # <<>> THEN <<Slice0(line1, MAX_LEN)>> ELSE <<>>)
                  \o (IF Slice0(line2, MAX_LEN) # <<>>
                      THEN <<IF StartsWith(Slice0(line2, MAX_LEN), JIKYEOK0)
                             THEN Slice0(line2, MAX_LEN)
                             ELSE JIKYEOK \o Slice0(line2, MAX_LEN)>>
                      ELSE <<>>)
             ELSE <<Slice0(enforceThaiRules(line1, text), MAX_LEN)>>
                  \o (IF line2 # <<>> THEN <<Slice0(marked, MAX_LEN)>> ELSE <<>>)

\* choices[0].message.content of the first completion:
\* "", {"mode":"KR→TH","th":"กิน","ko_backliteral":"안녕"},
\* {"mode":"KR→TH","th":"안녕","ko_backliteral":" "}, {"mode":"TH→KR","ko":"안녕"},
\* {"mode":"TH→KR","ko":""}, and the plain text "กิน\n안녕"
NoObjW == [mode |-> "none", hasTh |-> FALSE, th |-> <<>>, ko_backliteral |-> <<>>,
           hasKo |-> FALSE, ko |-> <<>>]

RawsW ==
    {[pre |-> <<>>, has |-> FALSE, obj |-> NoObjW, post |-> <<>>],
     [pre |-> <<3585, 3636, 3609, 10, 50504, 45397>>, has |-> FALSE, obj |-> NoObjW,
      post |-> <<>>],
     [pre |-> <<>>, has |-> TRUE, post |-> <<>>,
      obj |-> [NoObjW EXCEPT !.mode = "KR->TH", !.hasTh = TRUE, !.th = <<3585, 3636, 3609>>,
                             !.ko_backliteral = <<50504, 45397>>]],
     [pre |-> <<>>, has |-> TRUE, post |-> <<>>,
      obj |-> [NoObjW EXCEPT !.mode = "KR->TH", !.hasTh = TRUE, !.th = <<50504, 45397>>,
                             !.ko_backliteral = <<32>>]],
     [pre |-> <<>>, has |-> TRUE, post |-> <<>>,
      obj |-> [NoObjW EXCEPT !.mode = "TH->KR", !.hasKo = TRUE, !.ko = <<50504, 45397>>]],
     [pre |-> <<>>, has |-> TRUE, post |-> <<>>,
      obj |-> [NoObjW EXCEPT !.mode = "TH->KR", !.hasKo = TRUE]]}

\* content of the fallback completion: "", "กิน\n(직역) 안녕", "กิน\n안녕", "안녕"
ContentsFallback ==
    {<<>>,
     <<3585, 3636, 3609, 10, 40, 51649, 50669, 41, 32, 50504, 45397>>,
     <<3585, 3636, 3609, 10, 50504, 45397>>,
     <<50504, 45397>>}

\* the method check and const events = req.body?.events || []
W_Enter ==
    /\ variant \in {"webhook_v1", "webhook_v2", "part_000"}
    /\ pc = "start"
    /\ IF req.method # "POST" THEN res' = 200 /\ pc' = "done" ELSE res' = res /\ pc' = "loop"
    /\ UNCHANGED <<input, output, variant, messages, env, req, idx, tries, ai, oaiCalls, lineCalls, raised>>

\* for (const ev of events) { try { if (...) continue; ...
W_NextEvent ==
    /\ variant \in {"webhook_v1", "webhook_v2", "part_000"}
    /\ pc = "loop"
    /\ idx < Len(req.events)
    /\ idx' = idx + 1
    /\ pc' = IF isTextMessage(req.events[idx + 1]) THEN "complete" ELSE "loop"
    /\ messages' = <<>>
    /\ UNCHANGED <<input, output, variant, env, req, tries, ai, oaiCalls, lineCalls, raised, res>>

\* the JSON-forcing completion and the branches on its parsed content
W_Complete ==
    /\ variant \in {"webhook_v1", "webhook_v2", "part_000"}
    /\ pc = "complete"
    /\ LET userText == Trim(req.events[idx].text)
       IN  \E k \in FetchKinds, raw \in RawsW :
             /\ k # "json" => raw = CHOOSE r \in RawsW : ~r.has
             /\ oaiCalls' = Append(oaiCalls,
                    OaiCall("gpt-4o-mini", userText,
                            [NoResult EXCEPT !.thrown = (k # "json"),
                                             !.ok = (k = "json" /\ ~NeedsFallback(raw))])
                    @@ [blank |-> BlankRaw(k = "json", raw),
                        mode |-> IF k = "json" /\ ~NeedsFallback(raw) THEN raw.obj.mode
                                 ELSE "none",
                        raw |-> raw])
             /\ IF k # "json"
                THEN pc' = "loop" /\ raised' = raised \cup {idx} /\ messages' = messages
                ELSE IF NeedsFallback(raw)
                THEN pc' = "fallback" /\ raised' = raised /\ messages' = messages
                ELSE /\ pc' = "reply" /\ raised' = raised
                     /\ messages' = MessagesFromJSON(raw, userText)
    /\ UNCHANGED <<input, output, variant, env, req, idx, tries, ai, lineCalls, res>>

\* const fb = await fallbackTranslate(userText, key); messages = fb.length ? fb : [failure]
W_Fallback ==
    /\ variant \in {"webhook_v1", "webhook_v2", "part_000"}
    /\ pc = "fallback"
    /\ LET userText == Trim(req.events[idx].text)
       IN  \E k \in FetchKinds, c \in ContentsFallback :
             /\ k # "json" => c = <<>>
             /\ LET fb == fallbackTranslate(c, userText)
                IN  /\ oaiCalls' = Append(oaiCalls,
                           OaiCall("gpt-4o-mini", userText,
                                   [NoResult EXCEPT !.thrown = (k # "json"),
                                                    !.ok = (k = "json" /\ Len(fb) > 0)])
                           @@ [blank |-> BlankText(k = "json", c), mode |-> "none"])
                    /\ IF k # "json"
                       THEN pc' = "loop" /\ raised' = raised \cup {idx} /\ messages' = messages
                       ELSE /\ pc' = "reply" /\ raised' = raised
                            /\ messages' = IF Len(fb) > 0 THEN fb ELSE <<FAIL_TEXT>>
    /\ UNCHANGED <<input, output, variant, env, req, idx, tries, ai, lineCalls, res>>

\* await fetch(chat completions) of the handler or of fallbackTranslate, with no
\* signal and no timer: the endpoint never answers
W_Hang ==
    /\ variant \in {"webhook_v1", "webhook_v2", "part_000"}
    /\ pc \in {"complete", "fallback"}
    /\ pc' = "waiting"
    /\ UNCHANGED <<input, output, variant, messages, env, req, idx, tries, ai, oaiCalls, lineCalls, raised, res>>

\* await replyToLine(ev.replyToken, messages, LINE_TOKEN) inside the try
W_Reply ==
    /\ variant \in {"webhook_v1", "webhook_v2", "part_000"}
    /\ pc = "reply"
    /\ \E o \in ReplyOutcomes :
         /\ lineCalls' = Append(lineCalls, [ev |-> idx, messages |-> messages, outcome |-> o])
         /\ raised' = IF o = "reject" THEN raised \cup {idx} ELSE raised
    /\ pc' = "loop"
    /\ UNCHANGED <<input, output, variant, messages, env, req, idx, tries, ai, oaiCalls, res>>

\* return res.status(200).send("OK")
W_Finish ==
    /\ variant \in {"webhook_v1", "webhook_v2", "part_000"}
    /\ pc = "loop"
    /\ idx = Len(req.events)
    /\ res' = 200
    /\ pc' = "done"
    /\ UNCHANGED <<input, output, variant, messages, env, req, idx, tries, ai, oaiCalls, lineCalls, raised>>

InitHandler ==
    /\ pc = "start"
    /\ idx = 0
    /\ tries = 0
    /\ ai = NoResult
    /\ messages = <<>>
    /\ oaiCalls = <<>>
    /\ lineCalls = <<>>
    /\ raised = {}
    /\ res = 0

InitCommon ==
    /\ InitHandler
    /\ input = <<>>
    /\ output = <<>>

InitP3 ==
    /\ variant = "part_003"
    /\ env \in {[OPENAI_MODEL |-> m, OPENAI_API_KEY |-> TRUE, BACKLITERAL |-> TRUE] : m \in Models}
    /\ req \in {r \in Requests(PlainUserTexts) : r.body # "text"}
    /\ InitCommon

NextP3 ==
    \/ P3_Enter
    \/ P3_NextEvent
    \/ P3_CallPrimary
    \/ P3_CallFallback
    \/ P3_Hang
    \/ P3_Reply
    \/ P3_Finish

SpecP3 == InitP3 /\ [][NextP3]_vars

InitP1 ==
    /\ variant = "part_001"
    /\ env \in {[OPENAI_MODEL |-> m, OPENAI_API_KEY |-> TRUE, BACKLITERAL |-> TRUE] : m \in Models}
    /\ req \in {r \in Requests(PlainUserTexts) : r.body # "text"}
    /\ InitCommon

NextP1 ==
    \/ P1_Enter
    \/ P1_NextEvent
    \/ P1_CallModel
    \/ P1_Hang
    \/ P1_Reply
    \/ P1_Finish

InitP2 ==
    /\ variant = "part_002"
    /\ env \in {[OPENAI_MODEL |-> "gpt-4o-mini", OPENAI_API_KEY |-> k, BACKLITERAL |-> b] :
                  k \in BOOLEAN, b \in BOOLEAN}
    /\ req \in Requests(PlainUserTexts)
    /\ InitCommon

NextP2 ==
    \/ P2_Enter
    \/ P2_NextEvent
    \/ P2_Ask
    \/ P2_Reply
    \/ P2_Finish

SpecP2 == InitP2 /\ [][NextP2]_vars

InitB ==
    /\ variant = "part_002b"
    /\ env \in {[OPENAI_MODEL |-> m, OPENAI_API_KEY |-> TRUE, BACKLITERAL |-> TRUE] :
                  m \in {"gpt-4o-mini", "gpt-4o"}}
    /\ req \in Requests(PlainUserTexts)
    /\ InitCommon

NextB ==
    \/ B_Enter
    \/ B_NextEvent
    \/ B_Complete
    \/ B_Hang
    \/ B_Reply
    \/ B_Finish

SpecB == InitB /\ [][NextB]_vars

InitW ==
    /\ variant \in {"webhook_v1", "webhook_v2", "part_000"}
    /\ env = [OPENAI_MODEL |-> "gpt-4o-mini", OPENAI_API_KEY |-> TRUE, BACKLITERAL |-> TRUE]
    /\ req \in Requests(PlainUserTexts)
    /\ InitCommon

NextW ==
    \/ W_Enter
    \/ W_NextEvent
    \/ W_Complete
    \/ W_Fallback
    \/ W_Hang
    \/ W_Reply
    \/ W_Finish

SpecW == InitW /\ [][NextW]_vars

\* the two model-fallback variants
InitM == InitP1 \/ InitP3

NextM == NextP1 \/ NextP3

SpecM == InitM /\ [][NextM]_vars

(***************************************************************************)
(* The text functions on their own.                                        *)
(***************************************************************************)
\* no request is being handled
NoRequest ==
    /\ env = [OPENAI_MODEL |-> "gpt-4o", OPENAI_API_KEY |-> TRUE, BACKLITERAL |-> TRUE]
    /\ req = [method |-> "GET", body |-> "none", events |-> <<>>]
    /\ InitHandler

\* detectThai(text) of part_002
detectThai(text) == hasThai(text)

\* the direction buildUserPrompt(text, detectThai(text)) states in its Meta block
DirectionP2(text) == IF detectThai(text) THEN "TH_TO_KR" ELSE "KR_TO_TH"

\* the direction of fallbackTranslate: isKR = hasHangul(text) picks the prompt and
\* the shape of the result
DirectionFallback(text) == IF hasHangul(text) THEN "KR_TO_TH" ELSE "TH_TO_KR"

\* user texts over "안", "ก", "a", "ㅋ"
DetectTexts == SeqsUpTo({50504, 3585, 97, 12619}, MaxText) \ {<<>>}

InitD ==
    /\ variant = "detect"
    /\ NoRequest
    /\ input \in {[text |-> t] : t \in DetectTexts}
    /\ output = <<>>

D_DetectP2 ==
    /\ variant = "detect"
    /\ output = <<>>
    /\ output' = [site |-> "part_002", direction |-> DirectionP2(input.text)]
    /\ UNCHANGED <<input, variant, env, req, pc, idx, tries, ai, messages, oaiCalls, lineCalls,
                   raised, res>>

D_DetectFallback ==
    /\ variant = "detect"
    /\ output = <<>>
    /\ output' = [site |-> "fallbackTranslate", direction |-> DirectionFallback(input.text)]
    /\ UNCHANGED <<input, variant, env, req, pc, idx, tries, ai, messages, oaiCalls, lineCalls,
                   raised, res>>

NextD == D_DetectP2 \/ D_DetectFallback

SpecD == InitD /\ [][NextD]_vars

\* the concatenation of a sequence of texts
RECURSIVE Join(_)
Join(ts) == IF ts = <<>> THEN <<>> ELSE Head(ts) \o Join(Tail(ts))

\* pieces a model may put into the th field: "แก้ว", "Kaeu", "คุณ", "깨우", "กิน",
\* " ", "ㅋㅋ", "ㅎㅎㅎ", "하하", "ครับ", "ค่ะ"
ThaiPieces ==
    {KAEW, <<75, 97, 101, 117>>, <<3588, 3640, 3603>>, KAEU, <<3585, 3636, 3609>>,
     <<32>>, <<12619, 12619>>, <<12622, 12622, 12622>>, <<54616, 54616>>, KRAP, KA}

ThaiOutputs == {Join(ps) : ps \in SeqsUpTo(ThaiPieces, MaxPieces)}

\* userText: "깨우 ㅋㅋ", "안녕"
KoreanSources == {<<44648, 50864, 32, 12619, 12619>>, <<50504, 45397>>}

InitT ==
    /\ variant = "rules"
    /\ NoRequest
    /\ input \in {[source |-> k, thaiOut |-> t] : k \in KoreanSources, t \in ThaiOutputs}
    /\ output = <<>>

\* const th = enforceThaiRules(data.th, userText).slice(0, MAX_LEN), first copy of webhook.js
T_Enforce_v1 ==
    /\ variant = "rules"
    /\ output = <<>>
    /\ output' = [site |-> "webhook_v1",
                  text |-> Slice0(enforceThaiRules_v1(input.thaiOut, input.source), MAX_LEN)]
    /\ UNCHANGED <<input, variant, env, req, pc, idx, tries, ai, messages, oaiCalls, lineCalls,
                   raised, res>>

\* the same in the second copy of webhook.js
T_Enforce_v2 ==
    /\ variant = "rules"
    /\ output = <<>>
    /\ output' = [site |-> "webhook_v2",
                  text |-> Slice0(enforceThaiRules_v2(input.thaiOut, input.source), MAX_LEN)]
    /\ UNCHANGED <<input, variant, env, req, pc, idx, tries, ai, messages, oaiCalls, lineCalls,
                   raised, res>>

\* the same in part_000
T_Enforce_p0 ==
    /\ variant = "rules"
    /\ output = <<>>
    /\ output' = [site |-> "part_000",
                  text |-> Slice0(enforceThaiRules_p0(input.thaiOut, input.source), MAX_LEN)]
    /\ UNCHANGED <<input, variant, env, req, pc, idx, tries, ai, messages, oaiCalls, lineCalls,
                   raised, res>>

\* enforceThaiRules of the same file applied to its own result, with the same source
T_EnforceAgain ==
    /\ variant = "rules"
    /\ output # <<>>
    /\ "again" \notin DOMAIN output
    /\ output' = output @@
           [again |-> IF output.site = "webhook_v1"
                      THEN enforceThaiRules_v1(output.text, input.source)
                      ELSE IF output.site = "webhook_v2"
                      THEN enforceThaiRules_v2(output.text, input.source)
                      ELSE enforceThaiRules_p0(output.text, input.source)]
    /\ UNCHANGED <<input, variant, env, req, pc, idx, tries, ai, messages, oaiCalls, lineCalls,
                   raised, res>>

NextT == T_Enforce_v1 \/ T_Enforce_v2 \/ T_Enforce_p0 \/ T_EnforceAgain

SpecT == InitT /\ [][NextT]_vars

\* texts over "ㅋ", "ㅎ", "하", "5", "a"
LaughterTexts == SeqsUpTo({12619, 12622, 54616, 53, 97}, MaxText)

InitL ==
    /\ variant = "laughter"
    /\ NoRequest
    /\ input \in {[text |-> t] : t \in LaughterTexts}
    /\ output = <<>>

\* s = s.replace(/ㅋㅋ+|ㅎㅎ+|하하+/g, "555")
L_Replace ==
    /\ variant = "laughter"
    /\ output = <<>>
    /\ output' = [pass |-> 1, before |-> input.text, text |-> ReplaceLaughter(input.text)]
    /\ UNCHANGED <<input, variant, env, req, pc, idx, tries, ai, messages, oaiCalls, lineCalls,
                   raised, res>>

\* the same replacement applied to its own result
L_ReplaceAgain ==
    /\ variant = "laughter"
    /\ output # <<>>
    /\ output.pass = 1
    /\ output' = [pass |-> 2, before |-> output.text, text |-> ReplaceLaughter(output.text)]
    /\ UNCHANGED <<input, variant, env, req, pc, idx, tries, ai, messages, oaiCalls, lineCalls,
                   raised, res>>

NextL == L_Replace \/ L_ReplaceAgain

SpecL == InitL /\ [][NextL]_vars

\* how far the lengths of the model's texts range around the two limits
MaxOver == 3

\* a text of n code units "가"
Fill(n) == [k \in 1..n |-> 44032]

\* lengths of the literal back-translation: none, short, and around MAX_LEN and LINE_MAX
LiteralLengths ==
    {0, 1, 2} \cup ((MAX_LEN - 5 - MaxOver)..(MAX_LEN + MaxOver))
              \cup ((LINE_MAX - 5 - MaxOver)..(LINE_MAX + MaxOver))

\* the literal as the model writes it: the bare text, the text already carrying
\* "(직역) ", the text between two spaces
Literals ==
    {Fill(n) : n \in LiteralLengths} \cup {JIKYEOK \o Fill(n) : n \in LiteralLengths \ {0}}
        \cup {<<32>> \o Fill(n) \o <<32>> : n \in LiteralLengths}

\* the configurations: the three handlers without a toggle, part_002 with BACKLITERAL
\* on and off
InitS ==
    /\ variant \in {"webhook_v1", "webhook_v2", "part_000", "part_002"}
    /\ env \in {[OPENAI_MODEL |-> "gpt-4o", OPENAI_API_KEY |-> TRUE, BACKLITERAL |-> b] :
                   b \in (IF variant = "part_002" THEN BOOLEAN ELSE {TRUE})}
    /\ req = [method |-> "GET", body |-> "none", events |-> <<>>]
    /\ InitHandler
    /\ input \in {[source |-> <<50504, 45397>>, primary |-> <<3585, 3636, 3609>>, literal |-> l] :
                     l \in Literals}
    /\ output = <<>>

\* the messages the handler of webhook.js / part_000 builds from the completion
\* {"mode":"KR→TH","th":primary,"ko_backliteral":literal}
S_FromJSON ==
    /\ variant \in {"webhook_v1", "webhook_v2", "part_000"}
    /\ output = <<>>
    /\ output' = [site |-> "handler",
                  messages |-> MessagesFromJSON(
                      [pre |-> <<>>, has |-> TRUE, post |-> <<>>,
                       obj |-> [NoObjW EXCEPT !.mode = "KR->TH", !.hasTh = TRUE,
                                              !.th = input.primary,
                                              !.ko_backliteral = input.literal]],
                      input.source)]
    /\ UNCHANGED <<input, variant, env, req, pc, idx, tries, ai, messages, oaiCalls, lineCalls,
                   raised, res>>

\* the messages fallbackTranslate returns for the completion "primary\nliteral"
S_Fallback ==
    /\ variant \in {"webhook_v1", "webhook_v2", "part_000"}
    /\ output = <<>>
    /\ output' = [site |-> "fallbackTranslate",
                  messages |-> fallbackTranslate(input.primary \o <<10>> \o input.literal,
                                                 input.source)]
    /\ UNCHANGED <<input, variant, env, req, pc, idx, tries, ai, messages, oaiCalls, lineCalls,
                   raised, res>>

\* the messages part_002 sends when the text it parses is the object
\* {"translated":primary,"literal":literal}
S_OutTexts ==
    /\ variant = "part_002"
    /\ output = <<>>
    /\ LET raw == [pre |-> <<>>, has |-> TRUE, post |-> <<>>,
                   obj |-> [translated |-> input.primary, literal |-> input.literal]]
           r == [NoResult EXCEPT !.ok = TRUE, !.status = 200,
                                 !.text = FieldP2(raw, raw.obj.translated),
                                 !.back = FieldP2(raw, raw.obj.literal)]
       IN  output' = [site |-> "part_002", messages |-> lineReplyMessages(OutTextsP2(r))]
    /\ UNCHANGED <<input, variant, env, req, pc, idx, tries, ai, messages, oaiCalls, lineCalls,
                   raised, res>>

NextS == S_FromJSON \/ S_Fallback \/ S_OutTexts

SpecS == InitS /\ [][NextS]_vars

\* what the model may write before the object: nothing, "```json\n", "```\n", "ok ",
\* " ", "{ "
TextsBefore ==
    {<<>>, <<96, 96, 96, 106, 115, 111, 110, 10>>, <<96, 96, 96, 10>>, <<111, 107, 32>>,
     <<32>>, <<123, 32>>}

\* what the model may write after the object: nothing, "\n```", "\n", " ok", " }"
TextsAfter == {<<>>, <<10, 96, 96, 96>>, <<10>>, <<32, 111, 107>>, <<32, 125>>}

\* the completion texts handed to the parsers: an object (or none) between two texts
ParserTexts ==
    {[pre |-> b, has |-> h, post |-> a,
      obj |-> IF h THEN [NoObjW EXCEPT !.mode = "TH->KR", !.hasKo = TRUE, !.ko = k]
              ELSE NoObjW] :
        b \in TextsBefore, a \in TextsAfter, h \in BOOLEAN, k \in {<<>>, <<50504, 45397>>}}

InitJ ==
    /\ variant = "parse"
    /\ NoRequest
    /\ input \in ParserTexts
    /\ output = <<>>

\* parseLooseJSON(text) of part_001
J_ParseLoose ==
    /\ variant = "parse"
    /\ output = <<>>
    /\ output' = [site |-> "part_001", parsed |-> parseLooseJSON(input)]
    /\ UNCHANGED <<input, variant, env, req, pc, idx, tries, ai, messages, oaiCalls, lineCalls,
                   raised, res>>

\* safeParseJSON(str) of part_002
J_SafeParseP2 ==
    /\ variant = "parse"
    /\ output = <<>>
    /\ output' = [site |-> "part_002", parsed |-> safeParseJSON_p2(input)]
    /\ UNCHANGED <<input, variant, env, req, pc, idx, tries, ai, messages, oaiCalls, lineCalls,
                   raised, res>>

\* safeParseJSON(raw) of webhook.js and part_000
J_SafeParse ==
    /\ variant = "parse"
    /\ output = <<>>
    /\ output' = [site |-> "webhook", parsed |-> safeParseJSON(input)]
    /\ UNCHANGED <<input, variant, env, req, pc, idx, tries, ai, messages, oaiCalls, lineCalls,
                   raised, res>>

NextJ == J_ParseLoose \/ J_SafeParseP2 \/ J_SafeParse

SpecJ == InitJ /\ [][NextJ]_vars

\* the variants with a second completion behind the first: the fallback prompt of
\* webhook.js and part_000, the fallback model of part_003
InitF == InitW \/ InitP3

NextF == NextW \/ NextP3

SpecF == InitF /\ [][NextF]_vars

\* the handlers that answer a failed completion with a text of their own: both
\* handlers of part_002, and part_003
InitE == InitP2 \/ InitB \/ InitP3

NextE == NextP2 \/ NextB \/ NextP3

SpecE == InitE /\ [][NextE]_vars

\* every variant of the handler
Init == InitW \/ InitP1 \/ InitP2 \/ InitB \/ InitP3

Next == NextW \/ NextP1 \/ NextP2 \/ NextB \/ NextP3

Spec == Init /\ [][Next]_vars

\* every variant of the handler, on the deliveries whose events are all the text
\* message "안녕"
InitK ==
    /\ Init
    /\ req.method = "POST" /\ req.body = "object"
    /\ \A k \in 1..Len(req.events) :
          isTextMessage(req.events[k]) /\ req.events[k].text = <<50504, 45397>>

SpecK == InitK /\ [][Next]_vars

(***************************************************************************)
(* Properties.                                                             *)
(***************************************************************************)
\* the completion requests and the reply requests made for event ev
CallsOf(ev) == SelectSeq(oaiCalls, LAMBDA c : c.ev = ev)

RepliesOf(ev) == SelectSeq(lineCalls, LAMBDA c : c.ev = ev)

\* the handler has returned (or died of an exception nobody caught)
Returned == pc \in {"done", "crashed"}

\* the completion stage of event ev is over
PastCompletion(ev) ==
    ev < idx \/ pc \notin {"primary", "fallback", "translate", "ask", "complete", "waiting"}

\* C1: every POST delivery is answered with a success status, never a 5xx, whatever
\* happened while its events were processed.
C1_AlwaysAcknowledged ==
    (req.method = "POST" /\ Returned) => (res >= 200 /\ res <= 299)

\* C2: when processing event i raised an exception, every later text-message event
\* j of the delivery has still been processed and has its own reply attempt.
C2_LaterEventsStillProcessed ==
    Returned =>
        \A i \in raised, j \in 1..Len(req.events) :
            (1 <= i /\ i < j /\ isTextMessage(req.events[j])) => RepliesOf(j) # <<>>

\* C3: once the handler has returned, a reply call carrying the event's replyToken
\* has been issued for every text-message event of the delivery.
C3_EveryTextEventReplied ==
    (req.method = "POST" /\ Returned) =>
        \A j \in 1..Len(req.events) :
            isTextMessage(req.events[j]) => RepliesOf(j) # <<>>

\* C4: every reply carries 1 or 2 segments; it carries 2 only with a non-empty
\* back-translation and the back-translation switched on; and when no content
\* survives, the single segment is the failure placeholder (never an empty text).
C4_OneOrTwoSegments ==
    \A k \in 1..Len(lineCalls) :
        LET m == lineCalls[k].messages
        IN  /\ Len(m) \in {1, 2}
            /\ Len(m) = 2 => (env.BACKLITERAL /\ Len(m[2]) > Len(JIKYEOK))
            /\ (\A n \in 1..Len(m) : m[n] = <<>>) => FALSE

\* C5: no outbound segment ever has an empty text.
C5_NoEmptySegment ==
    \A k \in 1..Len(lineCalls) :
        \A n \in 1..Len(lineCalls[k].messages) : lineCalls[k].messages[n] # <<>>

\* C6: when the completion failed on the primary and on the fallback model, the
\* event got exactly one reply, whose only segment is the fixed failure message,
\* and the webhook answered with a success status.
C6_BothFailedGivesFailureReply ==
    Returned =>
        \A ev \in 1..Len(req.events) :
            LET cs == CallsOf(ev)
            IN  (Len(cs) >= 2 /\ \A k \in 1..Len(cs) : ~cs[k].ok) =>
                    /\ Len(RepliesOf(ev)) = 1
                    /\ RepliesOf(ev)[1].messages = <<FAIL_TEXT>>
                    /\ res >= 200 /\ res <= 299

\* C7: an attempt is repeated only after a 429, on the same model and payload, at
\* most 3 attempts are made, the loop goes on while a 429 leaves budget, and the
\* outcome handed to the handler is that of the last attempt.
C7_RetryOnlyAfter429 ==
    \A ev \in 1..idx :
        LET cs == CallsOf(ev)
            n == Len(cs)
        IN  /\ n <= 3
            /\ \A k \in 1..(n - 1) : cs[k].status = 429
            /\ \A k \in 1..n : cs[k].model = env.OPENAI_MODEL /\ cs[k].payload = cs[1].payload
            /\ (n > 0 /\ PastCompletion(ev)) => (cs[n].status # 429 \/ n = 3)
            /\ (n > 0 /\ ev = idx /\ pc = "reply") =>
                   (ai.ok = cs[n].ok /\ ai.status = cs[n].status)

\* two 429 answers, then a success on the third attempt: the outcome is that success
C7_Witness ==
    /\ pc = "reply"
    /\ Len(CallsOf(idx)) = 3
    /\ CallsOf(idx)[1].status = 429
    /\ CallsOf(idx)[2].status = 429
    /\ CallsOf(idx)[3].status = 200
    /\ ai.ok

\* C8: the fallback model is called exactly when the primary ended in failure, and
\* with the payload of the primary call.
C8_FallbackIffPrimaryFailed ==
    \A ev \in 1..idx :
        LET cs == CallsOf(ev)
        IN  (cs # <<>> /\ PastCompletion(ev)) =>
                /\ (~cs[1].ok) <=> (Len(cs) >= 2)
                /\ \A k \in 1..Len(cs) : cs[k].payload = cs[1].payload

\* the models called for event ev
ModelsCalled(ev) == {CallsOf(ev)[k].model : k \in 1..Len(CallsOf(ev))}

C10_ClientNeverThrows ==
    \A k \in 1..Len(oaiCalls) : ~oaiCalls[k].thrown

\* C11: when a 2xx completion carries, inside its envelope, a well-formed payload
\* with a non-empty translation, the reply of the event carries that translation
\* as its first segment and not the failure message.
C11_ContentExtractedFromEnvelope ==
    \A k \in 1..Len(lineCalls) :
        LET cs == CallsOf(lineCalls[k].ev)
            last == cs[Len(cs)]
        IN  (cs # <<>> /\ last.ok /\ last.content.wellFormed /\ last.content.translated # <<>>)
                => /\ lineCalls[k].messages[1] = last.content.translated
                   /\ lineCalls[k].messages # <<FAIL_TEXT>>

\* C12: a 2xx completion whose extracted content is empty counts as a failure: when
\* it is the last completion of an event, the event is answered with the failure
\* message only (no segment is built from the empty content), and in part_003 an
\* empty completion of the primary sends the event on to the fallback model.
C12_EmptyContentIsFailure ==
    /\ \A k \in 1..Len(lineCalls) :
           LET cs == CallsOf(lineCalls[k].ev)
           IN  (cs # <<>> /\ cs[Len(cs)].blank) => lineCalls[k].messages = <<FAIL_TEXT>>
    /\ \A ev \in 1..idx :
           LET cs == CallsOf(ev)
           IN  (variant = "part_003" /\ cs # <<>> /\ PastCompletion(ev) /\ cs[1].blank
                    /\ env.OPENAI_MODEL # "gpt-4o-mini") => Len(cs) = 2

\* an empty completion of the primary sent the event to the fallback model, whose
\* completion was empty too, and the event was answered with the failure message
C12_Witness ==
    \E k \in 1..Len(lineCalls) :
        LET cs == CallsOf(lineCalls[k].ev)
        IN  /\ variant = "part_003"
            /\ Len(cs) = 2 /\ cs[1].blank /\ cs[2].blank
            /\ lineCalls[k].messages = <<FAIL_TEXT>>

\* C13: no event hangs on a completion that never answers: as long as the handler
\* has not returned, it has a next step to take.
C13_NoEventHangs ==
    Returned \/ ENABLED Next

\* C14: the detected direction of a text is KR_TO_TH when it holds a Hangul syllable,
\* else TH_TO_KR when it holds a Thai-block code unit, else KR_TO_TH; in particular
\* a text with both Hangul and Thai is KR_TO_TH.
C14_HangulFirstDetection ==
    output # <<>> =>
        LET t == input.text
            hangul == \E k \in 1..Len(t) : t[k] >= 44032 /\ t[k] <= 55203
            thai == \E k \in 1..Len(t) : t[k] >= 3584 /\ t[k] <= 3711
        IN  output.direction = IF hangul THEN "KR_TO_TH"
                               ELSE IF thai THEN "TH_TO_KR" ELSE "KR_TO_TH"

\* C15: when the Korean source holds "깨우", the post-processed Thai segment holds
\* "แก้ว" and no Hangul syllable, whatever the model wrote.
C15_NameAndNoHangul ==
    (output # <<>> /\ Includes(input.source, KAEU)) =>
        /\ Includes(output.text, KAEW)
        /\ \A k \in 1..Len(output.text) : ~(output.text[k] >= 44032 /\ output.text[k] <= 55203)

\* a laughter marker: ㅋ, ㅎ or 하 written twice or more in a row
HasLaughterMarker(t) ==
    \E k \in 1..(Len(t) - 1) : t[k] = t[k + 1] /\ t[k] \in {12619, 12622, 54616}

\* C16: post-processing turns every laughter marker of the model output (a run of ㅋ,
\* a run of ㅎ, repeated 하) into "555": an output that held a marker holds "555"
\* afterwards, and no marker is left.
C16_LaughterCollapsed ==
    output # <<>> =>
        /\ HasLaughterMarker(input.thaiOut) => Includes(output.text, <<53, 53, 53>>)
        /\ ~HasLaughterMarker(output.text)

\* C17: the laughter replacement is idempotent: applied to its own result it changes
\* nothing.
C17_LaughterIdempotent ==
    (output # <<>> /\ output.pass = 2) => output.text = output.before

\* a text with two markers, both replaced by the first pass, went through the second
C17_Witness ==
    /\ output # <<>>
    /\ output.pass = 2
    /\ input.text = <<12619, 12619, 12622, 12622>>
    /\ output.text = <<53, 53, 53, 53, 53, 53>>

\* C18: for a Thai-script source text, the Korean-direction segment that is sent (the
\* ko of a TH->KR answer, or the result of the fallback prompt) holds no code unit
\* of the Thai block U+0E00..U+0E7F.
C18_NoThaiInKorean ==
    \A k \in 1..Len(lineCalls) :
        LET ev == lineCalls[k].ev
            t == req.events[ev].text
            cs == CallsOf(ev)
            thaiSource == /\ \E n \in 1..Len(t) : t[n] >= 3584 /\ t[n] <= 3711
                          /\ \A n \in 1..Len(t) : ~(t[n] >= 44032 /\ t[n] <= 55203)
        IN  (thaiSource /\ cs # <<>> /\ (Len(cs) = 2 \/ cs[1].mode = "TH->KR")) =>
                \A n \in 1..Len(lineCalls[k].messages) :
                    \A c \in 1..Len(lineCalls[k].messages[n]) :
                        ~(lineCalls[k].messages[n][c] >= 3584 /\ lineCalls[k].messages[n][c] <= 3711)

\* C19: every segment sent, the back-translation segment with its "(직역) " prefix
\* included, is at most the segment limit long (MAX_LEN in webhook.js and part_000,
\* LINE_MAX in part_002), whatever the length of the model's text.
C19_SegmentWithinLimit ==
    output # <<>> =>
        \A n \in 1..Len(output.messages) :
            Len(output.messages[n]) <= (IF output.site = "part_002" THEN LINE_MAX ELSE MAX_LEN)

\* C20: the reply has a second segment exactly when back-translation is enabled
\* (BACKLITERAL in part_002; the other handlers have no toggle and always include
\* it) and the literal is non-empty after trimming; that segment starts with
\* "(직역) " and the marker is not repeated after it; with the toggle off the reply
\* has exactly one segment.
C20_SecondSegmentRule ==
    output # <<>> =>
        LET enabled == output.site # "part_002" \/ env.BACKLITERAL
            second == output.messages[2]
        IN  /\ Len(output.messages) = 2 <=> (enabled /\ Trim(input.literal) # <<>>)
            /\ Len(output.messages) = 2 =>
                   /\ StartsWith(second, JIKYEOK)
                   /\ ~StartsWith(Drop(second, Len(JIKYEOK)), JIKYEOK0)
            /\ ~enabled => Len(output.messages) = 1

\* a code-fence wrapper: "```" with an optional "json" tag, or nothing, amid white space
IsFenceOrBlank(s) == Trim(s) \in {<<>>, FENCE, FENCE \o <<106, 115, 111, 110>>}

\* C21: a completion text that holds a valid object once its code-fence wrappers are
\* stripped, or whose outermost {...} span is a valid object amid other text, is
\* parsed to that object by the response parser and not reported as a failure.
C21_ParserDegrades ==
    output # <<>> =>
        ((input.has /\ ((IsFenceOrBlank(input.pre) /\ IsFenceOrBlank(input.post))
                        \/ BraceSpanObject(input)))
            => output.parsed)

\* C22: when the first completion of an event is a text without a structured payload,
\* the reply is built from the non-empty lines of that text: its first segment is
\* the first non-empty line (post-processed for a Korean source), so the fixed
\* failure reply is sent only when the text has no non-empty line.
C22_ReplyFromRawLines ==
    \A k \in 1..Len(lineCalls) :
        LET ev == lineCalls[k].ev
            cs == CallsOf(ev)
            userText == Trim(req.events[ev].text)
            ls == NonEmptyLines(cs[1].raw.pre)
        IN  (cs # <<>> /\ ~cs[1].thrown /\ ~cs[1].raw.has /\ ls # <<>>) =>
                lineCalls[k].messages[1] =
                    (IF hasHangul(userText) THEN Slice0(enforceThaiRules(ls[1], userText), MAX_LEN)
                     ELSE Slice0(ls[1], MAX_LEN))

\* the completion stage of the event of reply k ended in failure: its last call came
\* back not ok, or with an empty completion
FailedBeforeReply(k) ==
    LET cs == CallsOf(lineCalls[k].ev)
    IN  cs # <<>> /\ (~cs[Len(cs)].ok \/ cs[Len(cs)].blank)

C24_ReplyOnceAndAckKept ==
    /\ \A ev \in 1..Len(req.events) : Len(RepliesOf(ev)) <= 1
    /\ (/\ Returned
        /\ req.method = "POST" /\ req.body = "object"
        /\ \A k \in 1..Len(oaiCalls) : ~oaiCalls[k].thrown)
           => (res >= 200 /\ res <= 299)

EndsWithKa(s) ==
    \E p \in 1..Len(s) :
        /\ MatchAt(s, p, KA)
        /\ \A k \in (p + 3)..Len(s) : IsSpace(s[k]) \/ s[k] \in {46, 33, 63, 8230}

\* C26: where the polite particle is enforced (both copies of webhook.js), " ครับ" is
\* appended to the non-empty Thai text exactly when that text neither ends with
\* "ครับ" nor ends with the feminine "ค่ะ"; so every non-empty result without a
\* feminine ending ends with "ครับ", optionally followed by punctuation.
C26_KrapAppendedWhenMissing ==
    (output # <<>> /\ output.site \in {"webhook_v1", "webhook_v2"}) =>
        LET named == IF output.site = "webhook_v1" THEN NameRule_v1(input.thaiOut, input.source)
                     ELSE NameRule(input.thaiOut, input.source)
            s == Trim(ReplaceLaughter(RemoveHangul(named)))
        IN  /\ output.text = (IF s # <<>> /\ ~EndsWithKrap(s) /\ ~EndsWithKa(s)
                              THEN s \o <<32>> \o KRAP ELSE s)
            /\ (output.text # <<>> /\ ~EndsWithKa(output.text)) => EndsWithKrap(output.text)

\* C27: a structured payload is taken as the translation only when its mode is the
\* direction of the event's text: "KR->TH" for a text with Hangul, "TH->KR" for a
\* text without; so a Thai-only text never gets the Thai post-processing.
C27_ModeMatchesDirection ==
    \A k \in 1..Len(oaiCalls) :
        LET c == oaiCalls[k]
        IN  /\ c.mode = "KR->TH" => hasHangul(c.payload)
            /\ c.mode = "TH->KR" => ~hasHangul(c.payload)

\* C28: the completion calls made for one event are bounded whatever the provider
\* answers: at most 2 in webhook.js and part_000 (the JSON prompt, then the fallback
\* prompt), at most 3 in part_002 (429 retries), 1 in the second handler of part_002,
\* and in part_001 and part_003 at most one call per model, so at most 3 and 2.
C28_CallsPerEventBounded ==
    \A ev \in 1..Len(req.events) :
        LET cs == CallsOf(ev)
        IN  /\ variant \in {"webhook_v1", "webhook_v2", "part_000"} => Len(cs) <= 2
            /\ variant = "part_002" => Len(cs) <= 3
            /\ variant = "part_002b" => Len(cs) <= 1
            /\ variant \in {"part_001", "part_003"} =>
                   /\ \A i, j \in 1..Len(cs) : cs[i].model = cs[j].model => i = j
                   /\ Len(cs) <= (IF variant = "part_001" THEN 3 ELSE 2)

\* each bound is reached: two calls in webhook.js, three in part_002, three models
\* in part_001, two in part_003
C28_Witness ==
    /\ Len(req.events) >= 1
    /\ \/ variant = "webhook_v2" /\ Len(CallsOf(1)) = 2
       \/ variant = "part_002" /\ Len(CallsOf(1)) = 3
       \/ variant = "part_001" /\ Len(CallsOf(1)) = 3
       \/ variant = "part_003" /\ Len(CallsOf(1)) = 2
    /\ Len(RepliesOf(1)) = 1

\* C29: the Thai post-processor is idempotent: applied to its own result with the
\* same source text it returns that result unchanged, in the copies that append
\* the polite particle and in the one that does not.
C29_EnforceIdempotent ==
    (output # <<>> /\ "again" \in DOMAIN output) => output.again = output.text

====
